---- MODULE Spec2Model ----
(***************************************************************************)
(* Model of terraform-provider-jwk: the two JWK->PEM conversion entry       *)
(* points (the plugin-framework data source JwkToPemDataSource.Read and the *)
(* SDKv2 data source datasourceJwkToPemRead) and the mutual-TLS JWKS        *)
(* fetcher JwkFromK8sDataSource.Read.  Every handler is modelled step by    *)
(* step: one action per library call of the handler, in source order, with  *)
(* the early returns of the code as the branch that ends the call.          *)
(***************************************************************************)
EXTENDS Integers, Sequences, FiniteSets, TLC

VARIABLES
    pc,        \* position of the running handler ("idle" between calls)
    entry,     \* which handler is running
    data,      \* the configuration read by req.Config.Get / d.Get
    jwk,       \* jose.JSONWebKey decoded by UnmarshalJSON (Key, KeyID)
    pubData,   \* DER bytes returned by x509.MarshalPKIXPublicKey
    pemData,   \* bytes.Buffer filled by pem.Encode
    host,      \* the fetcher's local `host`
    jwksData,  \* the response body returned by io.ReadAll
    jwksResp,  \* JwksResp.Keys after json.Unmarshal
    jwksAttr,  \* the fetcher's []attr.Value under construction
    idx,       \* position of the range loop over jwksResp.Keys
    diags,     \* resp.Diagnostics / the returned diag.Diagnostics
    dropped,   \* diagnostics returned by a callee and assigned to `_`
    state,     \* resp.State / *schema.ResourceData as written by the call
    requests   \* URLs of the HTTP requests issued by the call, in order

vars == <<pc, entry, data, jwk, pubData, pemData, host, jwksData, jwksResp,
          jwksAttr, idx, diags, dropped, state, requests>>

(***************************************************************************)
(* Bounds of the model.                                                     *)
(***************************************************************************)
MaxHostLen == 3
MaxKeys == 2

(***************************************************************************)
(* Text.  Strings whose characters matter are sequences of tokens.          *)
(***************************************************************************)
NoKid == "<absent>"
NoOp == "<none>"
NoErr == "<nil>"

RECURSIVE SeqsUpTo(_, _)
SeqsUpTo(S, n) ==
    IF n = 0 THEN {<<>>}
    ELSE LET shorter == SeqsUpTo(S, n - 1)
         IN  shorter \cup {Append(s, x) : s \in shorter, x \in S}

Last(s) == s[Len(s)]
Front(s) == SubSeq(s, 1, Len(s) - 1)

\* strings.TrimRight(s, "/"): every trailing character of the cutset goes.
RECURSIVE TrimRight(_, _)
TrimRight_once(s, cutset) ==
    IF Len(s) > 0 /\ Last(s) \in cutset THEN Front(s) ELSE s
TrimRight(s, cutset) ==
    IF Len(s) > 0 /\ Last(s) \in cutset THEN TrimRight(Front(s), cutset) ELSE s

RECURSIVE TrimLeft(_, _)
TrimLeft(s, cutset) ==
    IF Len(s) > 0 /\ Head(s) \in cutset THEN TrimLeft(Tail(s), cutset) ELSE s

\* strings.TrimSpace: leading and trailing white space removed.
WhiteSpace == {"\n", " "}
TrimSpace(s) == TrimLeft(TrimRight(s, WhiteSpace), WhiteSpace)

DiscoveryPath == <<"/", "openid", "/", "v1", "/", "jwks">>

(***************************************************************************)
(* JWK text and jose.JSONWebKey.UnmarshalJSON.                              *)
(* A JWK text is described by what the parser looks at: whether it is a     *)
(* JSON object at all, its "kty", whether the private member "d" is there,  *)
(* whether the members the key type needs are present and well formed, its  *)
(* key material and its optional "kid".                                     *)
(***************************************************************************)
Ktys == {"RSA", "EC", "OKP", "oct", "unknown"}
Kids == {NoKid, "", "test-1"}
Materials == {"k1", "k2"}

JwkTexts ==
    [json : BOOLEAN, kty : Ktys, d : BOOLEAN, ok : BOOLEAN,
     mat : Materials, kid : Kids]

NoKey == [type |-> "nil", mat |-> "none"]
NoJwk == [Key |-> NoKey, KeyID |-> ""]

PublicKeyTypes == {"*rsa.PublicKey", "*ecdsa.PublicKey", "ed25519.PublicKey"}

KeyTypeOf(t) ==
    CASE t.kty = "RSA" /\ t.d -> "*rsa.PrivateKey"
      [] t.kty = "RSA" /\ ~t.d -> "*rsa.PublicKey"
      [] t.kty = "EC" /\ t.d -> "*ecdsa.PrivateKey"
      [] t.kty = "EC" /\ ~t.d -> "*ecdsa.PublicKey"
      [] t.kty = "OKP" /\ t.d -> "ed25519.PrivateKey"
      [] t.kty = "OKP" /\ ~t.d -> "ed25519.PublicKey"
      [] OTHER -> "[]byte"

\* The key identifier of the decoded key: raw.Kid, "" when the member is absent.
KeyIDOf(t) == IF t.kid = NoKid THEN "" ELSE t.kid

\* jwk.UnmarshalJSON: JSON syntax, then one dispatch on "kty"; "oct" decodes
\* to a []byte key and a key with "d" decodes to a private key.
UnmarshalJSON(t) ==
    IF ~t.json
    THEN [err |-> "invalid character", jwk |-> NoJwk]
    ELSE IF t.kty = "unknown"
    THEN [err |-> "unknown json web key type", jwk |-> NoJwk]
    ELSE IF ~t.ok
    THEN [err |-> "invalid key, missing or bad values", jwk |-> NoJwk]
    ELSE [err |-> NoErr,
          jwk |-> [Key |-> [type |-> KeyTypeOf(t), mat |-> t.mat],
                   KeyID |-> KeyIDOf(t)]]

\* x509.MarshalPKIXPublicKey: DER for the public key types, an error for
\* every other Go type (private keys, []byte).
MarshalPKIXPublicKey_lenient(key) ==
    [err |-> NoErr, der |-> <<key.type, key.mat>>]
MarshalPKIXPublicKey(key) ==
    IF key.type \in PublicKeyTypes
    THEN [err |-> NoErr, der |-> <<key.type, key.mat>>]
    ELSE [err |-> "x509: unsupported public key type", der |-> <<>>]

\* pem.Encode of a block without headers into a bytes.Buffer: the BEGIN
\* line, the base64 lines, the END line, each ended by a newline.  It fails
\* only on a bad header or a failing writer, and there is neither.
RECURSIVE Base64Lines(_)
Base64Lines(der) ==
    IF der = <<>> THEN <<>>
    ELSE <<"b64", Head(der), "\n">> \o Base64Lines(Tail(der))

PemEncode(blockType, der) ==
    [err |-> NoErr,
     out |-> <<"-----BEGIN ", blockType, "-----", "\n">> \o Base64Lines(der)
             \o <<"-----END ", blockType, "-----", "\n">>]


(***************************************************************************)
(* TLS credential bundle.                                                   *)
(***************************************************************************)
ClientCerts == {"cert", "malformed"}
ClientKeys == {"key", "otherkey", "malformed"}
\* A CA text is the sequence of its blocks; "not a cert" is <<"junk">>.
CaTexts == {<<>>, <<"junk">>, <<"CERTIFICATE">>, <<"junk", "CERTIFICATE">>}
HostChars == {"h", "/"}
Hosts == SeqsUpTo(HostChars, MaxHostLen)

\* tls.X509KeyPair: both texts must parse and the key must match the leaf.
X509KeyPair(certPEM, keyPEM) ==
    IF certPEM = "malformed"
    THEN "tls: failed to find any PEM data in certificate input"
    ELSE IF keyPEM = "malformed"
    THEN "tls: failed to find any PEM data in key input"
    ELSE IF keyPEM # "key"
    THEN "tls: private key does not match public key"
    ELSE NoErr

\* CertPool.AppendCertsFromPEM: ok iff at least one certificate was parsed.
AppendCertsFromPEM_any(ca) == TRUE
AppendCertsFromPEM(ca) == \E i \in 1..Len(ca) : ca[i] = "CERTIFICATE"

(***************************************************************************)
(* The response body and encoding/json.                                     *)
(* A raw JSON value is its token sequence; "ws" is insignificant white      *)
(* space inside the value and "<" a character json.Marshal escapes.         *)
(***************************************************************************)
RawElems ==
    { <<"{", "k", "}">>, <<"{", "ws", "k", "}">>, <<"1">>, <<"null">>,
      <<"{", "<", "}">> }

Bodies ==
    {[kind |-> k, keys |-> "absent", elems |-> <<>>] :
        k \in {"invalid", "null", "array", "object"}}
    \cup {[kind |-> "object", keys |-> v, elems |-> <<>>] : v \in {"null", "string"}}
    \cup {[kind |-> "object", keys |-> "array", elems |-> e] :
            e \in SeqsUpTo(RawElems, MaxKeys)}

NoBody == [kind |-> "unread", keys |-> "absent", elems |-> <<>>]

\* json.Unmarshal(jwksData, &jwksResp) with JwksResp{Keys []json.RawMessage}:
\* a syntax error or a value of the wrong JSON type is an error; JSON null
\* and an object without "keys" (or with "keys": null) leave Keys nil.
Unmarshal(body) ==
    CASE body.kind = "invalid" -> [err |-> "invalid character", Keys |-> <<>>]
      [] body.kind = "array" ->
            [err |-> "json: cannot unmarshal array into Go value", Keys |-> <<>>]
      [] body.kind = "null" -> [err |-> NoErr, Keys |-> <<>>]
      [] body.kind = "object" /\ body.keys = "string" ->
            [err |-> "json: cannot unmarshal string into Go struct field", Keys |-> <<>>]
      [] body.kind = "object" /\ body.keys = "array" ->
            [err |-> NoErr, Keys |-> body.elems]
      [] OTHER -> [err |-> NoErr, Keys |-> <<>>]

\* json.Marshal(&jwkRaw) of a json.RawMessage: the raw text compacted, with
\* the HTML characters escaped.
RECURSIVE Compact(_)
Compact(raw) ==
    IF raw = <<>> THEN <<>>
    ELSE IF Head(raw) = "ws" THEN Compact(Tail(raw))
    ELSE IF Head(raw) = "<" THEN <<"\\u003c">> \o Compact(Tail(raw))
    ELSE <<Head(raw)>> \o Compact(Tail(raw))

Marshal(raw) == [err |-> NoErr, out |-> Compact(raw)]

\* types.ListValue(types.StringType, elements): a diagnostic for every element
\* whose type is not the element type; the elements here are all strings.
ListValue(elementType, elements) ==
    [list |-> elements,
     diags |-> IF elementType = "string" THEN <<>>
               ELSE <<[op |-> "ListValue", msg |-> "Invalid List Element Type",
                       err |-> "element type mismatch"]>>]

(***************************************************************************)
(* Diagnostics and the written state.                                       *)
(***************************************************************************)
\* resp.Diagnostics.AddError(summary, fmt.Sprintf(detail + "%s", err))
AddError(ds, summary, detail, err) ==
    Append(ds, [op |-> summary, msg |-> detail, err |-> err])

\* diag.FromErr(err): one diagnostic whose summary is err.Error().
FromErr(err) == <<[op |-> NoOp, msg |-> "", err |-> err]>>

HasError(ds) == ds # <<>>

EmptyState ==
    [idSet |-> FALSE, pemSet |-> FALSE, jwksSet |-> FALSE,
     id |-> "", pem |-> <<>>, jwks |-> <<>>]

\* schema.ResourceData.Set(key, value): an error unless the key is a field
\* of the schema and the value has the field's type.
ResourceDataSet(key, valueType) ==
    IF key \in {"jwk", "pem"} /\ valueType = "string" THEN NoErr
    ELSE "Invalid address to set"

Init ==
    /\ pc = "idle"
    /\ entry = "none"
    /\ data = [jwk |-> "none"]
    /\ jwk = NoJwk
    /\ pubData = <<>>
    /\ pemData = <<>>
    /\ host = <<>>
    /\ jwksData = NoBody
    /\ jwksResp = <<>>
    /\ jwksAttr = <<>>
    /\ idx = 0
    /\ diags = <<>>
    /\ dropped = <<>>
    /\ state = EmptyState
    /\ requests = <<>>

\* The fresh locals of a call that has just read its configuration.
Begin(e, cfg, first) ==
    /\ pc' = first
    /\ entry' = e
    /\ data' = cfg
    /\ jwk' = NoJwk
    /\ pubData' = <<>>
    /\ pemData' = <<>>
    /\ host' = <<>>
    /\ jwksData' = NoBody
    /\ jwksResp' = <<>>
    /\ jwksAttr' = <<>>
    /\ idx' = 0
    /\ diags' = <<>>
    /\ dropped' = <<>>
    /\ state' = EmptyState
    /\ requests' = <<>>

\* An early return with an error diagnostic appended.
Fail(ds) ==
    /\ diags' = ds
    /\ pc' = "done"

ToPem == "JwkToPemDataSource.Read"
Legacy == "datasourceJwkToPemRead"
FromK8s == "JwkFromK8sDataSource.Read"
Converters == {ToPem, Legacy}


(***************************************************************************)
(* JwkToPemDataSource.Read (plugin framework).                              *)
(***************************************************************************)
ConverterLocals == <<host, jwksData, jwksResp, jwksAttr, idx, requests, dropped>>

\* req.Config.Get(ctx, &data); jwkStr := data.Jwk.ValueString()
JwkToPemRead_Config ==
    /\ pc = "idle"
    /\ \E t \in JwkTexts : Begin(ToPem, [jwk |-> t], "unmarshal")

JwkToPemRead_UnmarshalJSON ==
    /\ entry = ToPem /\ pc = "unmarshal"
    /\ LET r == UnmarshalJSON(data.jwk)
       IN  IF r.err # NoErr
           THEN /\ Fail(AddError(diags, "UnmarshalJSON", "Can't unmarshal JWK : ", r.err))
                /\ UNCHANGED jwk
           ELSE /\ jwk' = r.jwk
                /\ pc' = "marshal"
                /\ UNCHANGED diags
    /\ UNCHANGED <<entry, data, pubData, pemData, state>>
    /\ UNCHANGED ConverterLocals

\* The same step with the `return` of the error branch left out.
JwkToPemRead_MarshalPKIXPublicKey_noreturn ==
    /\ entry = ToPem /\ pc = "marshal"
    /\ LET r == MarshalPKIXPublicKey(jwk.Key)
       IN  /\ diags' = IF r.err # NoErr
                       THEN AddError(diags, "MarshalPKIXPublicKey",
                                     "Fail to marshal key: ", r.err)
                       ELSE diags
           /\ pubData' = r.der
           /\ pc' = "encode"
    /\ UNCHANGED <<entry, data, jwk, pemData, state>>
    /\ UNCHANGED ConverterLocals

JwkToPemRead_MarshalPKIXPublicKey ==
    /\ entry = ToPem /\ pc = "marshal"
    /\ LET r == MarshalPKIXPublicKey(jwk.Key)
       IN  IF r.err # NoErr
           THEN /\ Fail(AddError(diags, "MarshalPKIXPublicKey",
                                 "Fail to marshal key: ", r.err))
                /\ UNCHANGED pubData
           ELSE /\ pubData' = r.der
                /\ pc' = "encode"
                /\ UNCHANGED diags
    /\ UNCHANGED <<entry, data, jwk, pemData, state>>
    /\ UNCHANGED ConverterLocals

JwkToPemRead_Encode ==
    /\ entry = ToPem /\ pc = "encode"
    /\ LET r == PemEncode("PUBLIC KEY", pubData)
       IN  IF r.err # NoErr
           THEN /\ Fail(AddError(diags, "Encode", "Fail to encode PEM key: ", r.err))
                /\ UNCHANGED pemData
           ELSE /\ pemData' = r.out
                /\ pc' = "set"
                /\ UNCHANGED diags
    /\ UNCHANGED <<entry, data, jwk, pubData, state>>
    /\ UNCHANGED ConverterLocals

\* data.Id, data.Pem and resp.State.Set(ctx, &data).
JwkToPemRead_StateSet ==
    /\ entry = ToPem /\ pc = "set"
    /\ state' = [state EXCEPT !.idSet = TRUE, !.id = jwk.KeyID,
                              !.pemSet = TRUE, !.pem = TrimSpace(pemData)]
    /\ pc' = "done"
    /\ UNCHANGED <<entry, data, jwk, pubData, pemData, diags>>
    /\ UNCHANGED ConverterLocals

(***************************************************************************)
(* datasourceJwkToPemRead (SDKv2).                                          *)
(***************************************************************************)
\* jwkStr := d.Get("jwk").(string)
LegacyRead_Get ==
    /\ pc = "idle"
    /\ \E t \in JwkTexts : Begin(Legacy, [jwk |-> t], "unmarshal")

LegacyRead_UnmarshalJSON ==
    /\ entry = Legacy /\ pc = "unmarshal"
    /\ LET r == UnmarshalJSON(data.jwk)
       IN  IF r.err # NoErr
           THEN /\ Fail(FromErr(r.err))
                /\ UNCHANGED jwk
           ELSE /\ jwk' = r.jwk
                /\ pc' = "marshal"
                /\ UNCHANGED diags
    /\ UNCHANGED <<entry, data, pubData, pemData, state>>
    /\ UNCHANGED ConverterLocals

LegacyRead_MarshalPKIXPublicKey ==
    /\ entry = Legacy /\ pc = "marshal"
    /\ LET r == MarshalPKIXPublicKey(jwk.Key)
       IN  IF r.err # NoErr
           THEN /\ Fail(FromErr(r.err))
                /\ UNCHANGED pubData
           ELSE /\ pubData' = r.der
                /\ pc' = "encode"
                /\ UNCHANGED diags
    /\ UNCHANGED <<entry, data, jwk, pemData, state>>
    /\ UNCHANGED ConverterLocals

LegacyRead_Encode ==
    /\ entry = Legacy /\ pc = "encode"
    /\ LET r == PemEncode("PUBLIC KEY", pubData)
       IN  IF r.err # NoErr
           THEN /\ Fail(FromErr(r.err))
                /\ UNCHANGED pemData
           ELSE /\ pemData' = r.out
                /\ pc' = "setid"
                /\ UNCHANGED diags
    /\ UNCHANGED <<entry, data, jwk, pubData, state>>
    /\ UNCHANGED ConverterLocals

\* The same step with an identifier made up when the key has none.
LegacyRead_SetId_synth ==
    /\ entry = Legacy /\ pc = "setid"
    /\ state' = [state EXCEPT !.idSet = TRUE,
                              !.id = IF jwk.KeyID = "" THEN "-" ELSE jwk.KeyID]
    /\ pc' = "setpem"
    /\ UNCHANGED <<entry, data, jwk, pubData, pemData, diags>>
    /\ UNCHANGED ConverterLocals

\* d.SetId(jwk.KeyID)
LegacyRead_SetId ==
    /\ entry = Legacy /\ pc = "setid"
    /\ state' = [state EXCEPT !.idSet = TRUE, !.id = jwk.KeyID]
    /\ pc' = "setpem"
    /\ UNCHANGED <<entry, data, jwk, pubData, pemData, diags>>
    /\ UNCHANGED ConverterLocals

\* d.Set("pem", pemData.String()): the buffer's text as it is.
LegacyRead_SetPem ==
    /\ entry = Legacy /\ pc = "setpem"
    /\ LET err == ResourceDataSet("pem", "string")
       IN  IF err # NoErr
           THEN /\ Fail(FromErr(err))
                /\ UNCHANGED state
           ELSE /\ state' = [state EXCEPT !.pemSet = TRUE, !.pem = pemData]
                /\ pc' = "done"
                /\ UNCHANGED diags
    /\ UNCHANGED <<entry, data, jwk, pubData, pemData>>
    /\ UNCHANGED ConverterLocals


(***************************************************************************)
(* JwkFromK8sDataSource.Read.                                               *)
(***************************************************************************)
FetcherConfigs ==
    [client_certificate : ClientCerts, client_key : ClientKeys,
     cluster_ca_certificate : CaTexts, host : Hosts]

ConverterVars == <<jwk, pubData, pemData>>

\* req.Config.Get(ctx, &data)
K8sRead_Config ==
    /\ pc = "idle"
    /\ \E c \in FetcherConfigs : Begin(FromK8s, c, "keypair")

K8sRead_X509KeyPair ==
    /\ entry = FromK8s /\ pc = "keypair"
    /\ LET err == X509KeyPair(data.client_certificate, data.client_key)
       IN  IF err # NoErr
           THEN Fail(AddError(diags, "X509KeyPair", "Can't create X509: ", err))
           ELSE /\ pc' = "capool"
                /\ UNCHANGED diags
    /\ UNCHANGED <<entry, data, host, jwksData, jwksResp, jwksAttr, idx, dropped,
                   state, requests>>
    /\ UNCHANGED ConverterVars

K8sRead_AppendCertsFromPEM ==
    /\ entry = FromK8s /\ pc = "capool"
    /\ IF ~AppendCertsFromPEM(data.cluster_ca_certificate)
       THEN Fail(AddError(diags, "AppendCertsFromPEM", "Can't load cluster CA", NoErr))
       ELSE /\ pc' = "get"
            /\ UNCHANGED diags
    /\ UNCHANGED <<entry, data, host, jwksData, jwksResp, jwksAttr, idx, dropped,
                   state, requests>>
    /\ UNCHANGED ConverterVars

\* The same step with the request issued again after a transport failure.
K8sRead_Get_retry ==
    /\ entry = FromK8s /\ pc = "get"
    /\ host' = TrimRight(data.host, {"/"})
    /\ requests' = Append(requests, host' \o DiscoveryPath)
    /\ \E ok \in BOOLEAN :
          IF ~ok
          THEN IF requests = <<>>
               THEN /\ pc' = "get"
                    /\ UNCHANGED diags
               ELSE Fail(AddError(diags, "Get", "Fail to query K8S cluster : ",
                                  "transport error"))
          ELSE /\ pc' = "readall"
               /\ UNCHANGED diags
    /\ UNCHANGED <<entry, data, jwksData, jwksResp, jwksAttr, idx, dropped, state>>
    /\ UNCHANGED ConverterVars

\* host := strings.TrimRight(..., "/"); client.Get(host + "/openid/v1/jwks").
\* The exchange fails (connect, handshake, ...) or gives a response, whatever
\* its status code.
K8sRead_Get ==
    /\ entry = FromK8s /\ pc = "get"
    /\ host' = TrimRight(data.host, {"/"})
    /\ requests' = Append(requests, host' \o DiscoveryPath)
    /\ \E ok \in BOOLEAN :
          IF ~ok
          THEN Fail(AddError(diags, "Get", "Fail to query K8S cluster : ",
                             "transport error"))
          ELSE /\ pc' = "readall"
               /\ UNCHANGED diags
    /\ UNCHANGED <<entry, data, jwksData, jwksResp, jwksAttr, idx, dropped, state>>
    /\ UNCHANGED ConverterVars

\* io.ReadAll(k8sResp.Body): a read error, or the whole body.
K8sRead_ReadAll ==
    /\ entry = FromK8s /\ pc = "readall"
    /\ \/ /\ Fail(AddError(diags, "ReadAll", "Fail to read resp : ", "read error"))
          /\ UNCHANGED jwksData
       \/ \E b \in Bodies :
             /\ jwksData' = b
             /\ pc' = "unmarshal"
             /\ UNCHANGED diags
    /\ UNCHANGED <<entry, data, host, jwksResp, jwksAttr, idx, dropped, state,
                   requests>>
    /\ UNCHANGED ConverterVars

K8sRead_Unmarshal ==
    /\ entry = FromK8s /\ pc = "unmarshal"
    /\ LET r == Unmarshal(jwksData)
       IN  IF r.err # NoErr
           THEN /\ Fail(AddError(diags, "Unmarshal", "Can't unmarshal JwksResp : ",
                                 r.err))
                /\ UNCHANGED jwksResp
           ELSE /\ jwksResp' = r.Keys
                /\ pc' = "range"
                /\ UNCHANGED diags
    /\ UNCHANGED <<entry, data, host, jwksData, jwksAttr, idx, dropped, state,
                   requests>>
    /\ UNCHANGED ConverterVars

\* The loop body with the new element put in front of the slice.
K8sRead_Range_prepend ==
    /\ entry = FromK8s /\ pc = "range"
    /\ IF idx < Len(jwksResp)
       THEN LET r == Marshal(jwksResp[idx + 1])
            IN  /\ jwksAttr' = <<r.out>> \o jwksAttr
                /\ idx' = idx + 1
                /\ UNCHANGED <<pc, diags>>
       ELSE /\ pc' = "set"
            /\ UNCHANGED <<jwksAttr, idx, diags>>
    /\ UNCHANGED <<entry, data, host, jwksData, jwksResp, dropped, state, requests>>
    /\ UNCHANGED ConverterVars

\* for _, jwkRaw := range jwksResp.Keys { json.Marshal(&jwkRaw); append }
K8sRead_Range ==
    /\ entry = FromK8s /\ pc = "range"
    /\ IF idx < Len(jwksResp)
       THEN LET r == Marshal(jwksResp[idx + 1])
            IN  IF r.err # NoErr
                THEN /\ Fail(AddError(diags, "Marshal", "Can't marshal jwkRaw : ",
                                      r.err))
                     /\ UNCHANGED <<jwksAttr, idx>>
                ELSE /\ jwksAttr' = Append(jwksAttr, r.out)
                     /\ idx' = idx + 1
                     /\ UNCHANGED <<pc, diags>>
       ELSE /\ pc' = "set"
            /\ UNCHANGED <<jwksAttr, idx, diags>>
    /\ UNCHANGED <<entry, data, host, jwksData, jwksResp, dropped, state, requests>>
    /\ UNCHANGED ConverterVars

\* data.Id = host; data.Jwks, _ = types.ListValue(...); resp.State.Set.
K8sRead_StateSet ==
    /\ entry = FromK8s /\ pc = "set"
    /\ LET lv == ListValue("string", jwksAttr)
       IN  /\ dropped' = dropped \o lv.diags
           /\ state' = [state EXCEPT !.idSet = TRUE, !.id = host,
                                     !.jwksSet = TRUE, !.jwks = lv.list]
    /\ pc' = "done"
    /\ UNCHANGED <<entry, data, host, jwksData, jwksResp, jwksAttr, idx, diags,
                   requests>>
    /\ UNCHANGED ConverterVars

\* The handler returns; the provider is ready for the next call.
Return ==
    /\ pc = "done"
    /\ pc' = "idle"
    /\ UNCHANGED <<entry, data, jwk, pubData, pemData, host, jwksData, jwksResp,
                   jwksAttr, idx, diags, dropped, state, requests>>

Next ==
    \/ JwkToPemRead_Config
    \/ JwkToPemRead_UnmarshalJSON
    \/ JwkToPemRead_MarshalPKIXPublicKey
    \/ JwkToPemRead_Encode
    \/ JwkToPemRead_StateSet
    \/ LegacyRead_Get
    \/ LegacyRead_UnmarshalJSON
    \/ LegacyRead_MarshalPKIXPublicKey
    \/ LegacyRead_Encode
    \/ LegacyRead_SetId
    \/ LegacyRead_SetPem
    \/ K8sRead_Config
    \/ K8sRead_X509KeyPair
    \/ K8sRead_AppendCertsFromPEM
    \/ K8sRead_Get
    \/ K8sRead_ReadAll
    \/ K8sRead_Unmarshal
    \/ K8sRead_Range
    \/ K8sRead_StateSet
    \/ Return

Spec == Init /\ [][Next]_vars


(***************************************************************************)
(* Properties.                                                              *)
(***************************************************************************)
Written == state.idSet \/ state.pemSet \/ state.jwksSet
ErrorOps == {diags[i].op : i \in 1..Len(diags)}

\* C1: no partial success.  Whenever a step of a call of either converter
\* or of the fetcher has reported an error, nothing has been written to the
\* state (no id, no pem, no jwks), and a finished call that wrote a result
\* wrote all of it and reported no error.
C1_NoPartialSuccess ==
    /\ HasError(diags) => ~Written /\ state = EmptyState
    /\ (pc \in {"done", "idle"} /\ Written) =>
          /\ ~HasError(diags)
          /\ state.idSet
          /\ entry \in Converters => state.pemSet
          /\ entry = FromK8s => state.jwksSet /\ Len(state.jwks) = Len(jwksResp)

C1_Witness ==
    /\ pc = "done" /\ entry = FromK8s
    /\ "Unmarshal" \in ErrorOps
    /\ ~Written

SymmetricOrPrivate(t) == t.json /\ (t.kty = "oct" \/ (t.kty \in {"RSA", "EC", "OKP"} /\ t.d))

LacksKeys(b) == b.kind = "object" /\ b.keys = "absent"

\* C3 as claimed: a body that is not JSON, or a JSON object without "keys",
\* ends the fetch with the Unmarshal (envelope) error and never with a
\* written result.
C3_EnvelopeRejected ==
    (entry = FromK8s /\ pc = "done" /\ (jwksData.kind = "invalid" \/ LacksKeys(jwksData))) =>
        /\ "Unmarshal" \in ErrorOps
        /\ ~state.jwksSet

\* C4: credential validation precedes the network.  In a fetch whose client
\* pair does not parse or match, or whose CA text holds no certificate, no
\* request is ever issued.
C4_ValidationBeforeRequest ==
    (entry = FromK8s /\
        (\/ data.client_certificate # "cert"
         \/ data.client_key # "key"
         \/ \A i \in 1..Len(data.cluster_ca_certificate) :
                data.cluster_ca_certificate[i] # "CERTIFICATE")) =>
        /\ requests = <<>>
        /\ pc \notin {"get", "readall", "unmarshal", "range", "set"}
        /\ pc = "done" => HasError(diags)

C4_Witness ==
    /\ entry = FromK8s /\ pc = "done"
    /\ data.client_certificate = "cert" /\ data.client_key = "key"
    /\ data.cluster_ca_certificate = <<"junk">>
    /\ ErrorOps = {"AppendCertsFromPEM"}
    /\ requests = <<>>

AllSlashes(s) == \A i \in 1..Len(s) : s[i] = "/"

\* C5: host normalization.  Once the request is issued, `host` is the
\* configured host without its trailing "/" (all of them), the request URL is
\* host + "/openid/v1/jwks", and the identity written on success is host.
C5_HostNormalized ==
    (entry = FromK8s /\ requests # <<>>) =>
        /\ Len(host) <= Len(data.host)
        /\ host = SubSeq(data.host, 1, Len(host))
        /\ AllSlashes(SubSeq(data.host, Len(host) + 1, Len(data.host)))
        /\ (host # <<>> => host[Len(host)] # "/")
        /\ requests[1] = host \o <<"/", "openid", "/", "v1", "/", "jwks">>
        /\ state.idSet => state.id = host

C5_Witness ==
    /\ entry = FromK8s /\ pc = "done" /\ state.idSet
    /\ data.host = <<"h", "/", "/">>
    /\ state.id = <<"h">>
    /\ requests = <<<<"h", "/", "openid", "/", "v1", "/", "jwks">>>>

NoWs(raw) == SelectSeq(raw, LAMBDA c : c # "ws")

\* The i-th written fragment is the i-th raw value without its insignificant
\* white space and with "<" escaped.
SerializationOf(out, raw) ==
    /\ Len(out) = Len(NoWs(raw))
    /\ \A j \in 1..Len(out) :
          \/ out[j] = NoWs(raw)[j]
          \/ NoWs(raw)[j] = "<" /\ out[j] = "\\u003c"

\* C6: on a successful fetch the jwks written has one element per element of
\* the response's "keys" array, the i-th being the compact serialization of
\* the i-th, whatever its shape; {"keys":[]} succeeds with an empty sequence.
C6_Fragments ==
    (entry = FromK8s /\ pc = "done" /\ jwksData.kind = "object"
        /\ jwksData.keys = "array") =>
        /\ ~HasError(diags)
        /\ state.jwksSet
        /\ Len(state.jwks) = Len(jwksData.elems)
        /\ \A i \in 1..Len(jwksData.elems) :
              SerializationOf(state.jwks[i], jwksData.elems[i])
        /\ jwksData.elems = <<>> => state.jwks = <<>>

C6_Witness ==
    /\ entry = FromK8s /\ pc = "done" /\ state.jwksSet
    /\ jwksData.elems = << <<"{", "ws", "k", "}">>, <<"1">> >>
    /\ state.jwks = << <<"{", "k", "}">>, <<"1">> >>

\* C7: key-id passthrough.  The id written by either converter is the "kid"
\* member of the input when there is one and "" when there is none.
C7_KidPassthrough ==
    (entry \in Converters /\ state.idSet) =>
        /\ data.jwk.kid # NoKid => state.id = data.jwk.kid
        /\ data.jwk.kid = NoKid => state.id = ""

C7_Witness ==
    /\ entry = Legacy /\ pc = "done" /\ state.idSet /\ state.pemSet
    /\ data.jwk.kid = NoKid
    /\ state.id = ""

PemBegin == <<"-----BEGIN ", "PUBLIC KEY", "-----">>
PemEnd == <<"-----END ", "PUBLIC KEY", "-----">>

\* C8 as claimed: the pem written by any conversion entry point starts with
\* the BEGIN PUBLIC KEY line, ends with the END PUBLIC KEY line and has no
\* white space, in particular no newline, before or after.
C8_PemTrimmed ==
    (entry \in Converters /\ state.pemSet) =>
        /\ Len(state.pem) >= Len(PemBegin) + Len(PemEnd)
        /\ SubSeq(state.pem, 1, Len(PemBegin)) = PemBegin
        /\ SubSeq(state.pem, Len(state.pem) - Len(PemEnd) + 1, Len(state.pem)) = PemEnd
        /\ state.pem[1] \notin WhiteSpace
        /\ state.pem[Len(state.pem)] \notin WhiteSpace

\* C9 as claimed: every diagnostic of a call names the operation that failed
\* and carries that operation's message, and no diagnostic was dropped.
C9_ErrorsNamed ==
    /\ \A i \in 1..Len(diags) :
          /\ diags[i].op # NoOp
          /\ diags[i].err # NoErr \/ diags[i].msg # ""
    /\ dropped = <<>>

====
